---- MODULE Spec2Model ----
(***************************************************************************)
(* Financial and stock consistency core of the business-management        *)
(* backend: the invoice ledger, the payment reconciler and the inventory   *)
(* stock ledger, modelled from the Mongoose models and the controllers     *)
(* that sequence them.                                                     *)
(*                                                                         *)
(* Persistence: a document's save() runs the schema's pre("save") hook and *)
(* then stores the document; a handler that returns early or throws before *)
(* a save stores nothing.  Money is modelled in whole currency units, and  *)
(* the request values are chosen so that every percentage is exact.        *)
(* Time is counted in days.                                                *)
(***************************************************************************)
EXTENDS Integers, Sequences, FiniteSets, TLC

VARIABLES now, clients, invoices, invoiceItems, payments, last, steps,
          item, reqs, removed, stock, sales, subs, subPayments, user,
          numbered

vars == <<now, clients, invoices, invoiceItems, payments, last, steps,
          item, reqs, removed, stock, sales, subs, subPayments, user,
          numbered>>

stockVars == <<item>>
raceVars == <<reqs>>
numberVars == <<numbered>>
saleVars == <<stock, sales>>
subVars == <<subs, subPayments, user>>

(***************************************************************************)
(* Bounds of the model                                                     *)
(***************************************************************************)
MaxSteps == 4
MaxNow == 20
TickStep == 20
InitialStock == 5
NumRequests == 2
SubHorizon == 40

(***************************************************************************)
(* Values                                                                  *)
(***************************************************************************)
Undefined == -1
NoId == 0
TheInvoice == 1
TheClient == 1
DefaultTermDays == 30
HistoryLimit == 10

Max(a, b) == IF a >= b THEN a ELSE b

\* userSchema defaults of an account that has not paid yet
NewUser ==
  [status |-> "pending", planType |-> "free", planStatus |-> "pending",
   planEndDate |-> Undefined]

\* JavaScript's  v || d  on numbers: 0 and undefined are falsy
OrDefault(v, d) == IF v = Undefined \/ v = 0 THEN d ELSE v

\* an item of a request body, without a link to the inventory
Item(q, p, d, dt) ==
  [quantity |-> q, unitPrice |-> p, discount |-> d, discountType |-> dt,
   inventoryItem |-> NoId]

\* an item of a request body that names the inventory item it sells
LinkedItem(q, p, inv) ==
  [quantity |-> q, unitPrice |-> p, discount |-> 0,
   discountType |-> "percentage", inventoryItem |-> inv]

(***************************************************************************)
(* Request bodies the handlers are driven with                             *)
(***************************************************************************)
CreateInvoiceBodies ==
  { [items |-> <<Item(1, 100, 0, "percentage")>>, taxRate |-> Undefined,
     discount |-> Undefined, discountType |-> "", shippingFee |-> Undefined,
     dueDate |-> Undefined],
    [items |-> <<Item(1, 100, 0, "percentage")>>, taxRate |-> 50,
     discount |-> 50, discountType |-> "percentage", shippingFee |-> 50,
     dueDate |-> 10],
    [items |-> <<Item(2, 50, 50, "percentage")>>, taxRate |-> 0,
     discount |-> 50, discountType |-> "fixed", shippingFee |-> 0,
     dueDate |-> 10],
    [items |-> <<Item(1, 100, 0, "percentage")>>, taxRate |-> 0,
     discount |-> 200, discountType |-> "fixed", shippingFee |-> 50,
     dueDate |-> Undefined],
    [items |-> <<>>, taxRate |-> 0,
     discount |-> 0, discountType |-> "", shippingFee |-> 0,
     dueDate |-> Undefined] }

UpdateInvoiceBodies ==
  { [hasItems |-> FALSE, items |-> <<>>, taxRate |-> Undefined,
     discount |-> Undefined, discountType |-> "", shippingFee |-> Undefined,
     dueDate |-> Undefined, status |-> "cancelled"],
    [hasItems |-> FALSE, items |-> <<>>, taxRate |-> Undefined,
     discount |-> 50, discountType |-> "fixed", shippingFee |-> Undefined,
     dueDate |-> 10, status |-> ""],
    [hasItems |-> TRUE, items |-> <<Item(1, 50, 0, "percentage")>>,
     taxRate |-> 0, discount |-> Undefined, discountType |-> "",
     shippingFee |-> 0, dueDate |-> Undefined, status |-> ""] }

ClientRefs == {TheClient, 2}
Links == {<<TheInvoice, TheClient>>, <<NoId, NoId>>}
Amounts == {50, 100}
CreateMethods == {"cash", "card"}
RefundAmounts == {Undefined, 50, 150}
GatewayStatuses == {"successful", "failed"}
StatusUpdates == {"completed", "failed", "cancelled"}

(***************************************************************************)
(* Inventory item: the methods of the model                                *)
(***************************************************************************)
Movement(type, quantity, previousQuantity, newQuantity) ==
  [type |-> type, quantity |-> quantity,
   previousQuantity |-> previousQuantity, newQuantity |-> newQuantity]

\* LastEntries that keeps the oldest entries instead of the newest
LastEntries_KeepsOldest(h, n) ==
  IF Len(h) > n THEN SubSeq(h, 1, n) ELSE h

\* stockHistory.slice(-10)
LastEntries(h, n) ==
  IF Len(h) > n THEN SubSeq(h, Len(h) - n + 1, Len(h)) ELSE h

\* inventorySchema.pre("save")
inventoryPreSave(doc) ==
  LET d1 == IF doc.trackInventory
            THEN IF doc.quantity = 0
                 THEN [doc EXCEPT !.status = "out_of_stock"]
                 ELSE IF doc.status = "out_of_stock" /\ doc.quantity > 0
                      THEN [doc EXCEPT !.status = "active"]
                      ELSE doc
            ELSE doc
  IN  [d1 EXCEPT !.stockHistory = LastEntries(@, HistoryLimit)]

\* inventorySchema.methods.addStock, up to its save()
inventoryAddStock(doc, quantity, type, t) ==
  LET d1 == [doc EXCEPT
               !.quantity = @ + quantity,
               !.stockHistory = Append(@, Movement(type, quantity,
                                  doc.quantity, doc.quantity + quantity))]
  IN  IF type = "purchase" THEN [d1 EXCEPT !.lastRestockedDate = t] ELSE d1

\* insufficientStock that lets a reduction overdraw the stock by one
insufficientStock_OffByOne(doc, quantity) == quantity > doc.quantity + 1

\* inventorySchema.methods.reduceStock throws "Insufficient stock"
insufficientStock(doc, quantity) == quantity > doc.quantity

\* inventorySchema.methods.reduceStock past its guard, up to its save()
inventoryReduceStock(doc, quantity, type, t) ==
  LET d1 == [doc EXCEPT
               !.quantity = @ - quantity,
               !.stockHistory = Append(@, Movement(type, -quantity,
                                  doc.quantity, doc.quantity - quantity))]
  IN  IF type = "sale"
      THEN [d1 EXCEPT !.totalSold = @ + quantity, !.lastSoldDate = t]
      ELSE d1

\* inventoryAdjustStock that records the new quantity instead of the delta
inventoryAdjustStock_Absolute(doc, newQuantity) ==
  [doc EXCEPT
     !.quantity = newQuantity,
     !.stockHistory = Append(@, Movement("adjustment",
                        newQuantity, doc.quantity, newQuantity))]

\* inventorySchema.methods.adjustStock, up to its save()
inventoryAdjustStock(doc, newQuantity) ==
  [doc EXCEPT
     !.quantity = newQuantity,
     !.stockHistory = Append(@, Movement("adjustment",
                        newQuantity - doc.quantity, doc.quantity, newQuantity))]

\* Inventory.create in createInventoryItem with the schema defaults
NewItem(quantity) ==
  inventoryPreSave([quantity |-> quantity, status |-> "active",
                    trackInventory |-> TRUE, stockHistory |-> <<>>,
                    totalSold |-> 0, lastSoldDate |-> Undefined,
                    lastRestockedDate |-> Undefined])

\* createInvoice, "Update inventory if linked": the stock after the loop
\* over items[i..], and whether the loop ran to its end without a throw
RECURSIVE reduceLinked(_, _, _, _)
reduceLinked(st, items, i, t) ==
  IF i > Len(items) THEN [stock |-> st, ok |-> TRUE]
  ELSE LET id == items[i].inventoryItem IN
       IF id = NoId \/ id \notin DOMAIN st \/ ~st[id].trackInventory
       THEN reduceLinked(st, items, i + 1, t)
       ELSE IF insufficientStock(st[id], items[i].quantity)
       THEN [stock |-> st, ok |-> FALSE]
       ELSE reduceLinked(
              [st EXCEPT ![id] = inventoryPreSave(
                 inventoryReduceStock(@, items[i].quantity, "sale", t))],
              items, i + 1, t)

(***************************************************************************)
(* Invoice ledger                                                          *)
(***************************************************************************)
\* invoiceSchema.virtual("isOverdue")
isOverdue(inv, t) ==
  IF inv.status = "paid" \/ inv.status = "cancelled" THEN FALSE
  ELSE t > inv.dueDate

\* invoicePreSave with the floor of the total at 0 left out
invoicePreSave_NoFloor(inv, t) ==
  LET taxAmount == (inv.subtotal * inv.taxRate) \div 100
      gross == inv.subtotal + taxAmount + inv.shippingFee
      total == IF inv.discount > 0
               THEN IF inv.discountType = "percentage"
                    THEN gross - ((inv.subtotal * inv.discount) \div 100)
                    ELSE gross - inv.discount
               ELSE gross
      i1 == [inv EXCEPT !.taxAmount = taxAmount,
                        !.total = total,
                        !.amountDue = Max(0, total - inv.amountPaid)]
      i2 == IF i1.amountPaid = 0
            THEN [i1 EXCEPT !.paymentStatus = "unpaid"]
            ELSE IF i1.amountPaid >= i1.total
                 THEN [i1 EXCEPT !.paymentStatus = "paid",
                                 !.status = "paid",
                                 !.paidDate = IF @ = Undefined THEN t ELSE @]
                 ELSE [i1 EXCEPT !.paymentStatus = "partial",
                                 !.status = "partial"]
  IN  IF isOverdue(i2, t) /\ i2.status # "paid" /\ i2.status # "cancelled"
      THEN [i2 EXCEPT !.status = "overdue"]
      ELSE i2

\* invoicePreSave that takes an invoice for paid only above its total
invoicePreSave_StrictPaid(inv, t) ==
  LET taxAmount == (inv.subtotal * inv.taxRate) \div 100
      gross == inv.subtotal + taxAmount + inv.shippingFee
      total == IF inv.discount > 0
               THEN IF inv.discountType = "percentage"
                    THEN gross - ((inv.subtotal * inv.discount) \div 100)
                    ELSE gross - inv.discount
               ELSE gross
      i1 == [inv EXCEPT !.taxAmount = taxAmount,
                        !.total = Max(0, total),
                        !.amountDue = Max(0, Max(0, total) - inv.amountPaid)]
      i2 == IF i1.amountPaid = 0
            THEN [i1 EXCEPT !.paymentStatus = "unpaid"]
            ELSE IF i1.amountPaid > i1.total
                 THEN [i1 EXCEPT !.paymentStatus = "paid",
                                 !.status = "paid",
                                 !.paidDate = IF @ = Undefined THEN t ELSE @]
                 ELSE [i1 EXCEPT !.paymentStatus = "partial",
                                 !.status = "partial"]
  IN  IF isOverdue(i2, t) /\ i2.status # "paid" /\ i2.status # "cancelled"
      THEN [i2 EXCEPT !.status = "overdue"]
      ELSE i2

\* invoicePreSave whose overdue test does not spare a paid invoice
invoicePreSave_OverdueWins(inv, t) ==
  LET taxAmount == (inv.subtotal * inv.taxRate) \div 100
      gross == inv.subtotal + taxAmount + inv.shippingFee
      total == IF inv.discount > 0
               THEN IF inv.discountType = "percentage"
                    THEN gross - ((inv.subtotal * inv.discount) \div 100)
                    ELSE gross - inv.discount
               ELSE gross
      i1 == [inv EXCEPT !.taxAmount = taxAmount,
                        !.total = Max(0, total),
                        !.amountDue = Max(0, Max(0, total) - inv.amountPaid)]
      i2 == IF i1.amountPaid = 0
            THEN [i1 EXCEPT !.paymentStatus = "unpaid"]
            ELSE IF i1.amountPaid >= i1.total
                 THEN [i1 EXCEPT !.paymentStatus = "paid",
                                 !.status = "paid",
                                 !.paidDate = IF @ = Undefined THEN t ELSE @]
                 ELSE [i1 EXCEPT !.paymentStatus = "partial",
                                 !.status = "partial"]
  IN  IF t > i2.dueDate /\ i2.status # "cancelled"
      THEN [i2 EXCEPT !.status = "overdue"]
      ELSE i2

\* invoiceSchema.pre("save"): totals, payment status, overdue status
invoicePreSave(inv, t) ==
  LET taxAmount == (inv.subtotal * inv.taxRate) \div 100
      gross == inv.subtotal + taxAmount + inv.shippingFee
      total == IF inv.discount > 0
               THEN IF inv.discountType = "percentage"
                    THEN gross - ((inv.subtotal * inv.discount) \div 100)
                    ELSE gross - inv.discount
               ELSE gross
      i1 == [inv EXCEPT !.taxAmount = taxAmount,
                        !.total = Max(0, total),
                        !.amountDue = Max(0, Max(0, total) - inv.amountPaid)]
      i2 == IF i1.amountPaid = 0
            THEN [i1 EXCEPT !.paymentStatus = "unpaid"]
            ELSE IF i1.amountPaid >= i1.total
                 THEN [i1 EXCEPT !.paymentStatus = "paid",
                                 !.status = "paid",
                                 !.paidDate = IF @ = Undefined THEN t ELSE @]
                 ELSE [i1 EXCEPT !.paymentStatus = "partial",
                                 !.status = "partial"]
  IN  IF isOverdue(i2, t) /\ i2.status # "paid" /\ i2.status # "cancelled"
      THEN [i2 EXCEPT !.status = "overdue"]
      ELSE i2

\* invoiceSchema.methods.addPayment, including its save()
addPayment(inv, amount, t) ==
  LET paid == inv.amountPaid + amount
      i1 == IF paid >= inv.total
            THEN [inv EXCEPT !.amountPaid = paid, !.status = "paid",
                             !.paymentStatus = "paid", !.paidDate = t]
            ELSE [inv EXCEPT !.amountPaid = paid, !.status = "partial",
                             !.paymentStatus = "partial"]
  IN  invoicePreSave([i1 EXCEPT !.amountDue = Max(0, i1.total - i1.amountPaid)], t)

\* markAsSent that marks an invoice sent whatever its status
markAsSent_AnyStatus(inv, t) ==
  invoicePreSave([inv EXCEPT !.status = "sent", !.sentAt = t], t)

\* invoiceSchema.methods.markAsSent, including its save()
markAsSent(inv, t) ==
  invoicePreSave(IF inv.status = "draft"
                 THEN [inv EXCEPT !.status = "sent", !.sentAt = t]
                 ELSE inv, t)

\* invoiceSchema.methods.markAsViewed, including its save()
markAsViewed(inv, t) ==
  invoicePreSave(IF inv.viewedAt = Undefined
                 THEN [inv EXCEPT !.viewedAt = t,
                                  !.status = IF @ = "sent" THEN "viewed" ELSE @]
                 ELSE inv, t)

RECURSIVE SumQtyPrice(_)
\* the subtotal loop of createInvoice and updateInvoice
SumQtyPrice(items) ==
  IF items = <<>> THEN 0
  ELSE Head(items).quantity * Head(items).unitPrice + SumQtyPrice(Tail(items))

\* invoiceItemSchema.pre("save")
invoiceItemPreSave(it) ==
  LET base == it.quantity * it.unitPrice
      sub == IF it.discount > 0
             THEN IF it.discountType = "percentage"
                  THEN base - ((base * it.discount) \div 100)
                  ELSE base - it.discount
             ELSE base
  IN  Max(0, sub)

\* one more request is served
Step == steps < MaxSteps /\ steps' = steps + 1

\* res.status(code).json(...): the response of handler op about payment p
Reply(op, code, p) == last' = [op |-> op, code |-> code, pid |-> p]

\* createInvoice
createInvoice(client, body) ==
  /\ Step
  /\ TheInvoice \notin DOMAIN invoices
  /\ TheInvoice \notin removed
  /\ IF client \notin DOMAIN clients
     THEN /\ Reply("createInvoice", 404, NoId)
          /\ UNCHANGED <<invoices, invoiceItems, stock>>
     ELSE /\ invoices' = (TheInvoice :> invoicePreSave(
               [client |-> client,
                subtotal |-> SumQtyPrice(body.items),
                taxRate |-> OrDefault(body.taxRate, 0),
                taxAmount |-> 0,
                discount |-> OrDefault(body.discount, 0),
                discountType |-> IF body.discountType = "" THEN "percentage"
                                 ELSE body.discountType,
                shippingFee |-> OrDefault(body.shippingFee, 0),
                total |-> Undefined,
                amountPaid |-> 0,
                amountDue |-> 0,
                dueDate |-> IF body.dueDate = Undefined \/ body.dueDate = 0
                            THEN now + DefaultTermDays ELSE body.dueDate,
                paidDate |-> Undefined,
                status |-> "draft",
                paymentStatus |-> "unpaid",
                sentAt |-> Undefined,
                viewedAt |-> Undefined], now))
          \* InvoiceItem.insertMany stores the items without the save hook
          /\ invoiceItems' = [i \in 1..Len(body.items) |->
               [invoice |-> TheInvoice, quantity |-> body.items[i].quantity,
                unitPrice |-> body.items[i].unitPrice,
                discount |-> body.items[i].discount,
                discountType |-> body.items[i].discountType,
                subtotal |-> Undefined]]
          \* reduceStock of the linked inventory items; a throw ends the
          \* handler in its catch block
          /\ LET r == reduceLinked(stock, body.items, 1, now)
             IN  /\ stock' = r.stock
                 /\ Reply("createInvoice", IF r.ok THEN 201 ELSE 500, NoId)
  /\ UNCHANGED <<now, clients, payments>>
  /\ UNCHANGED <<removed, stockVars, raceVars, numberVars, sales, subVars>>

\* updateInvoice
updateInvoice(body) ==
  /\ Step
  /\ TheInvoice \in DOMAIN invoices
  /\ LET inv == invoices[TheInvoice] IN
     IF inv.status = "paid"
     THEN /\ Reply("updateInvoice", 400, NoId)
          /\ UNCHANGED <<invoices, invoiceItems>>
     ELSE LET i1 == [inv EXCEPT
                 !.taxRate = IF body.taxRate # Undefined THEN body.taxRate ELSE @,
                 !.discount = IF body.discount # Undefined THEN body.discount ELSE @,
                 !.discountType = IF body.discountType # "" THEN body.discountType ELSE @,
                 !.shippingFee = IF body.shippingFee # Undefined THEN body.shippingFee ELSE @,
                 !.dueDate = IF body.dueDate # Undefined /\ body.dueDate # 0
                             THEN body.dueDate ELSE @,
                 !.status = IF body.status # "" THEN body.status ELSE @]
              i2 == IF body.hasItems
                    THEN [i1 EXCEPT !.subtotal = SumQtyPrice(body.items)]
                    ELSE i1
          IN /\ invoices' = [invoices EXCEPT ![TheInvoice] = invoicePreSave(i2, now)]
             /\ invoiceItems' =
                  IF body.hasItems
                  THEN [i \in 1..Len(body.items) |->
                         [invoice |-> TheInvoice,
                          quantity |-> body.items[i].quantity,
                          unitPrice |-> body.items[i].unitPrice,
                          discount |-> body.items[i].discount,
                          discountType |-> body.items[i].discountType,
                          subtotal |-> invoiceItemPreSave(body.items[i])]]
                  ELSE invoiceItems
             /\ Reply("updateInvoice", 200, NoId)
  /\ UNCHANGED <<now, clients, payments>>
  /\ UNCHANGED <<removed, stockVars, raceVars, numberVars, saleVars, subVars>>

\* deleteInvoice without the refusal for a paid invoice
deleteInvoice_Unguarded ==
  /\ Step
  /\ TheInvoice \in DOMAIN invoices
  /\ invoiceItems' = <<>>
  /\ invoices' = <<>>
  /\ removed' = removed \cup {TheInvoice}
  /\ Reply("deleteInvoice", 200, NoId)
  /\ UNCHANGED <<now, clients, payments>>
  /\ UNCHANGED <<stockVars, raceVars, numberVars, saleVars, subVars>>

\* deleteInvoice: the invoice and its items are deleted; its id is never
\* given out again, and findById of it finds nothing
deleteInvoice ==
  /\ Step
  /\ TheInvoice \in DOMAIN invoices
  /\ IF invoices[TheInvoice].status = "paid"
     THEN /\ Reply("deleteInvoice", 400, NoId)
          /\ UNCHANGED <<invoices, invoiceItems, removed>>
     ELSE /\ invoiceItems' = <<>>
          /\ invoices' = <<>>
          /\ removed' = removed \cup {TheInvoice}
          /\ Reply("deleteInvoice", 200, NoId)
  /\ UNCHANGED <<now, clients, payments>>
  /\ UNCHANGED <<stockVars, raceVars, numberVars, saleVars, subVars>>

\* sendInvoice: invoice.markAsSent()
sendInvoice ==
  /\ Step
  /\ TheInvoice \in DOMAIN invoices
  /\ invoices' = [invoices EXCEPT ![TheInvoice] = markAsSent(@, now)]
  /\ Reply("sendInvoice", 200, NoId)
  /\ UNCHANGED <<now, clients, invoiceItems, payments>>
  /\ UNCHANGED <<removed, stockVars, raceVars, numberVars, saleVars, subVars>>

\* invoice.markAsViewed()
viewInvoice ==
  /\ Step
  /\ TheInvoice \in DOMAIN invoices
  /\ invoices' = [invoices EXCEPT ![TheInvoice] = markAsViewed(@, now)]
  /\ Reply("markAsViewed", 200, NoId)
  /\ UNCHANGED <<now, clients, invoiceItems, payments>>
  /\ UNCHANGED <<removed, stockVars, raceVars, numberVars, saleVars, subVars>>

\* the clock: new Date() / Date.now() read by the handlers
Tick ==
  /\ Step
  /\ now < MaxNow
  /\ now' = now + TickStep
  /\ Reply("tick", 200, NoId)
  /\ UNCHANGED <<clients, invoices, invoiceItems, payments>>
  /\ UNCHANGED <<removed, stockVars, raceVars, numberVars, saleVars, subVars>>


(***************************************************************************)
(* Payment reconciler                                                      *)
(***************************************************************************)

\* markAsCompleted: the linked invoice after invoice.addPayment(this.amount)
completedInvoices(pay) ==
  IF pay.invoice # NoId /\ pay.invoice \in DOMAIN invoices
  THEN [invoices EXCEPT ![pay.invoice] = addPayment(@, pay.amount, now)]
  ELSE invoices

\* completedClients that leaves the client's running total alone
completedClients_Skipped(pay) == clients

\* markAsCompleted: the linked client after client.totalPaid += this.amount
completedClients(pay) ==
  IF pay.client # NoId /\ pay.client \in DOMAIN clients
  THEN [clients EXCEPT ![pay.client].totalPaid = @ + pay.amount]
  ELSE clients

\* paymentSchema.methods.markAsCompleted on payment p (pay is the loaded
\* document), or on a payment that is appended when p = Len(payments) + 1
markAsCompleted(p, pay) ==
  /\ payments' = IF p > Len(payments)
                 THEN Append(payments, [pay EXCEPT !.status = "completed"])
                 ELSE [payments EXCEPT ![p] = [pay EXCEPT !.status = "completed"]]
  /\ invoices' = completedInvoices(pay)
  /\ clients' = completedClients(pay)

\* refundInvoice that forgets to take the refund off amountPaid
refundInvoice_KeepsPaid(inv, amount, t) ==
  LET i1 == [inv EXCEPT !.amountDue = @ + amount]
      i2 == IF i1.amountPaid = 0
            THEN [i1 EXCEPT !.paymentStatus = "unpaid", !.status = "sent"]
            ELSE IF i1.amountPaid < i1.total
                 THEN [i1 EXCEPT !.paymentStatus = "partial",
                                 !.status = "partial"]
                 ELSE i1
  IN  invoicePreSave(i2, t)

\* paymentSchema.methods.processRefund: the linked invoice after the refund
refundInvoice(inv, amount, t) ==
  LET i1 == [inv EXCEPT !.amountPaid = @ - amount, !.amountDue = @ + amount]
      i2 == IF i1.amountPaid = 0
            THEN [i1 EXCEPT !.paymentStatus = "unpaid", !.status = "sent"]
            ELSE IF i1.amountPaid < i1.total
                 THEN [i1 EXCEPT !.paymentStatus = "partial",
                                 !.status = "partial"]
                 ELSE i1
  IN  invoicePreSave(i2, t)

\* refundRejected without the check of the amount
refundRejected_AnyAmount(pay, amount) == pay.status # "completed"

\* processRefund throws: not completed, or the amount exceeds the payment's
refundRejected(pay, amount) ==
  pay.status # "completed" \/ amount > pay.amount

\* createPayment rejects a payment that exceeds the invoice balance
exceedsBalance(amount, inv) == amount > inv.amountDue

\* createPayment
createPayment(invId, cliId, amount, method) ==
  /\ Step
  /\ LET p == Len(payments) + 1
         pay == [invoice |-> invId, client |-> cliId, amount |-> amount,
                 method |-> method, status |-> "pending",
                 refund |-> Undefined]
     IN  IF invId # NoId /\ invId \notin DOMAIN invoices
         THEN Reply("createPayment", 404, NoId)
              /\ UNCHANGED <<clients, invoices, payments>>
         ELSE IF invId # NoId /\ exceedsBalance(amount, invoices[invId])
         THEN Reply("createPayment", 400, NoId)
              /\ UNCHANGED <<clients, invoices, payments>>
         ELSE IF method = "cash"
         THEN markAsCompleted(p, pay) /\ Reply("createPayment", 201, p)
         ELSE /\ payments' = Append(payments, pay)
              /\ Reply("createPayment", 201, p)
              /\ UNCHANGED <<clients, invoices>>
  /\ UNCHANGED <<now, invoiceItems>>
  /\ UNCHANGED <<removed, stockVars, raceVars, numberVars, saleVars, subVars>>

\* initializeFlutterwavePayment (the gateway accepted the initialisation)
initializeFlutterwavePayment(invId, amount) ==
  /\ Step
  /\ IF invId \notin DOMAIN invoices
     THEN Reply("initializeFlutterwavePayment", 404, NoId)
          /\ UNCHANGED payments
     ELSE /\ payments' = Append(payments,
               [invoice |-> invId, client |-> invoices[invId].client,
                amount |-> amount, method |-> "flutterwave",
                status |-> "pending", refund |-> Undefined])
          /\ Reply("initializeFlutterwavePayment", 200, Len(payments) + 1)
  /\ UNCHANGED <<now, clients, invoices, invoiceItems>>
  /\ UNCHANGED <<removed, stockVars, raceVars, numberVars, saleVars, subVars>>

\* verifyFlutterwavePayment: tx_ref names payment p, the gateway answers
\* with gwStatus and gwAmount for the transaction id of the request
verifyFlutterwavePayment(p, gwStatus, gwAmount) ==
  /\ Step
  /\ p \in 1..Len(payments)
  /\ IF gwStatus = "successful" /\ gwAmount >= payments[p].amount
     THEN markAsCompleted(p, payments[p])
          /\ Reply("verifyFlutterwavePayment", 200, p)
     ELSE /\ payments' = [payments EXCEPT ![p].status = "failed"]
          /\ Reply("verifyFlutterwavePayment", 400, p)
          /\ UNCHANGED <<clients, invoices>>
  /\ UNCHANGED <<now, invoiceItems>>
  /\ UNCHANGED <<removed, stockVars, raceVars, numberVars, saleVars, subVars>>

\* updatePaymentStatus
updatePaymentStatus(p, status) ==
  /\ Step
  /\ p \in 1..Len(payments)
  /\ IF status = "completed"
     THEN markAsCompleted(p, payments[p])
     ELSE /\ payments' = [payments EXCEPT ![p].status = status]
          /\ UNCHANGED <<clients, invoices>>
  /\ Reply("updatePaymentStatus", 200, p)
  /\ UNCHANGED <<now, invoiceItems>>
  /\ UNCHANGED <<removed, stockVars, raceVars, numberVars, saleVars, subVars>>

\* refundPayment: payment.processRefund(amount || payment.amount, ...)
refundPayment(p, reqAmount) ==
  /\ Step
  /\ p \in 1..Len(payments)
  /\ LET pay == payments[p]
         amount == OrDefault(reqAmount, pay.amount)
     IN  IF refundRejected(pay, amount)
         THEN Reply("refundPayment", 500, p)
              /\ UNCHANGED <<invoices, payments>>
         ELSE /\ payments' = [payments EXCEPT ![p].status = "refunded",
                                             ![p].refund = amount]
              /\ invoices' =
                   IF pay.invoice # NoId /\ pay.invoice \in DOMAIN invoices
                   THEN [invoices EXCEPT
                           ![pay.invoice] = refundInvoice(@, amount, now)]
                   ELSE invoices
              /\ Reply("refundPayment", 200, p)
  /\ UNCHANGED <<now, clients, invoiceItems>>
  /\ UNCHANGED <<removed, stockVars, raceVars, numberVars, saleVars, subVars>>

(***************************************************************************)
(* The ledger: clients, one invoice, its payments and the clock            *)
(***************************************************************************)
Init ==
  /\ now = 0
  /\ clients = (TheClient :> [totalPaid |-> 0])
  /\ invoices = <<>>
  /\ invoiceItems = <<>>
  /\ payments = <<>>
  /\ last = [op |-> "init", code |-> 200, pid |-> NoId]
  /\ steps = 0
  /\ item = [quantity |-> 0]
  /\ reqs = <<>>
  /\ removed = {}
  /\ stock = <<>>
  /\ sales = <<>>
  /\ subs = <<>>
  /\ subPayments = <<>>
  /\ user = NewUser
  /\ numbered = <<>>

Next ==
  \/ \E client \in ClientRefs, body \in CreateInvoiceBodies :
          createInvoice(client, body)
  \/ \E body \in UpdateInvoiceBodies : updateInvoice(body)
  \/ deleteInvoice
  \/ sendInvoice
  \/ viewInvoice
  \/ Tick
  \/ \E link \in Links, amount \in Amounts, method \in CreateMethods :
          createPayment(link[1], link[2], amount, method)
  \/ \E amount \in Amounts : initializeFlutterwavePayment(TheInvoice, amount)
  \/ \E p \in 1..Len(payments), gwStatus \in GatewayStatuses, gwAmount \in Amounts :
          verifyFlutterwavePayment(p, gwStatus, gwAmount)
  \/ \E p \in 1..Len(payments), status \in StatusUpdates :
          updatePaymentStatus(p, status)
  \/ \E p \in 1..Len(payments), reqAmount \in RefundAmounts :
          refundPayment(p, reqAmount)

Spec == Init /\ [][Next]_vars

TypeOK ==
  /\ now \in 0..MaxNow
  /\ \A i \in DOMAIN invoices : invoices[i].amountPaid >= 0
  /\ steps \in 0..MaxSteps


(***************************************************************************)
(* Inventory stock ledger                                                  *)
(***************************************************************************)
AddQuantities == {0, 2}
AddTypes == {"purchase"}
ReduceQuantities == {0, 1, InitialStock + 1}
ReduceTypes == {"sale"}
AdjustQuantities == {-1, 0, 3}
StockDeltas == {-(InitialStock + 1), -2, 0, 1}
UpdateItemBodies ==
  { [status |-> "", trackInventory |-> "false"],
    [status |-> "", trackInventory |-> "true"],
    [status |-> "inactive", trackInventory |-> ""] }

\* an item created empty and restocked n times by one unit
RECURSIVE Restocked(_)
Restocked(n) ==
  IF n = 0 THEN NewItem(0)
  ELSE inventoryPreSave(inventoryAddStock(Restocked(n - 1), 1, "purchase", 0))

LedgerUnchanged ==
  UNCHANGED <<now, clients, invoices, invoiceItems, payments, removed>>

\* controller addStock
addStock(quantity, type) ==
  /\ Step
  /\ IF quantity = 0 \/ quantity <= 0
     THEN Reply("addStock", 400, NoId) /\ UNCHANGED item
     ELSE /\ item' = inventoryPreSave(inventoryAddStock(item, quantity, type, now))
          /\ Reply("addStock", 200, NoId)
  /\ LedgerUnchanged /\ UNCHANGED <<raceVars, numberVars, saleVars, subVars>>

\* controller reduceStock
reduceStock(quantity, type) ==
  /\ Step
  /\ IF quantity = 0 \/ quantity <= 0
     THEN Reply("reduceStock", 400, NoId) /\ UNCHANGED item
     ELSE IF insufficientStock(item, quantity)
     THEN Reply("reduceStock", 500, NoId) /\ UNCHANGED item
     ELSE /\ item' = inventoryPreSave(
                       inventoryReduceStock(item, quantity, type, now))
          /\ Reply("reduceStock", 200, NoId)
  /\ LedgerUnchanged /\ UNCHANGED <<raceVars, numberVars, saleVars, subVars>>

\* controller adjustStock
adjustStock(quantity) ==
  /\ Step
  /\ IF quantity < 0
     THEN Reply("adjustStock", 400, NoId) /\ UNCHANGED item
     ELSE /\ item' = inventoryPreSave(inventoryAdjustStock(item, quantity))
          /\ Reply("adjustStock", 200, NoId)
  /\ LedgerUnchanged /\ UNCHANGED <<raceVars, numberVars, saleVars, subVars>>

\* controller updateStock: a signed change of the quantity
updateStock(quantityChange) ==
  /\ Step
  /\ IF quantityChange > 0
     THEN /\ item' = inventoryPreSave(
                       inventoryAddStock(item, quantityChange, "manual", now))
          /\ Reply("updateStock", 200, NoId)
     ELSE IF quantityChange < 0
     THEN IF insufficientStock(item, -quantityChange)
          THEN Reply("updateStock", 500, NoId) /\ UNCHANGED item
          ELSE /\ item' = inventoryPreSave(
                    inventoryReduceStock(item, -quantityChange, "manual", now))
               /\ Reply("updateStock", 200, NoId)
     ELSE Reply("updateStock", 200, NoId) /\ UNCHANGED item
  /\ LedgerUnchanged /\ UNCHANGED <<raceVars, numberVars, saleVars, subVars>>

\* updateInventoryItem: the fields of the body that touch the stock status
updateInventoryItem(body) ==
  /\ Step
  /\ item' = inventoryPreSave(
       [item EXCEPT
          !.status = IF body.status # "" THEN body.status ELSE @,
          !.trackInventory = IF body.trackInventory # ""
                             THEN body.trackInventory = "true" ELSE @])
  /\ Reply("updateInventoryItem", 200, NoId)
  /\ LedgerUnchanged /\ UNCHANGED <<raceVars, numberVars, saleVars, subVars>>

StockInit ==
  /\ now = 0
  /\ clients = <<>>
  /\ invoices = <<>>
  /\ invoiceItems = <<>>
  /\ payments = <<>>
  /\ last = [op |-> "init", code |-> 200, pid |-> NoId]
  /\ steps = 0
  /\ item \in {NewItem(0), NewItem(InitialStock), Restocked(HistoryLimit)}
  /\ reqs = <<>>
  /\ removed = {}
  /\ stock = <<>>
  /\ sales = <<>>
  /\ subs = <<>>
  /\ subPayments = <<>>
  /\ user = NewUser
  /\ numbered = <<>>

StockNext ==
  \/ \E q \in AddQuantities, type \in AddTypes : addStock(q, type)
  \/ \E q \in ReduceQuantities, type \in ReduceTypes : reduceStock(q, type)
  \/ \E q \in AdjustQuantities : adjustStock(q)
  \/ \E d \in StockDeltas : updateStock(d)
  \/ \E body \in UpdateItemBodies : updateInventoryItem(body)

SpecStock == StockInit /\ [][StockNext]_vars

(***************************************************************************)
(* Concurrent stock reductions on one inventory item.  A request loads the *)
(* document (await Inventory.findOne) and later runs reduceStock on its    *)
(* copy; save() writes the paths the request modified: it sets quantity    *)
(* and stats, and pushes the new movement onto stockHistory.               *)
(***************************************************************************)
RaceQuantities == {2, 3, InitialStock}
Requests == 1..NumRequests

\* await Inventory.findOne(...) of reduceStock and createSale
loadItem(r) ==
  /\ reqs[r].pc = "start"
  /\ reqs' = [reqs EXCEPT ![r].pc = "loaded", ![r].doc = item]
  /\ Reply("loadItem", 200, r)
  /\ UNCHANGED <<item, steps>>
  /\ LedgerUnchanged /\ UNCHANGED <<saleVars, subVars, numberVars>>

\* await item.reduceStock(quantity, "sale", ...) on the loaded copy
reduceLoaded(r) ==
  /\ reqs[r].pc = "loaded"
  /\ IF insufficientStock(reqs[r].doc, reqs[r].quantity)
     THEN /\ reqs' = [reqs EXCEPT ![r].pc = "failed"]
          /\ Reply("reduceLoaded", 500, r)
          /\ UNCHANGED item
     ELSE LET d == inventoryPreSave(inventoryReduceStock(
                     reqs[r].doc, reqs[r].quantity, "sale", now))
          IN /\ item' = [item EXCEPT
                   !.quantity = d.quantity,
                   !.status = d.status,
                   !.totalSold = d.totalSold,
                   !.lastSoldDate = d.lastSoldDate,
                   !.stockHistory = Append(@, d.stockHistory[Len(d.stockHistory)])]
             /\ reqs' = [reqs EXCEPT ![r].pc = "reduced", ![r].doc = d]
             /\ Reply("reduceLoaded", 200, r)
  /\ UNCHANGED steps
  /\ LedgerUnchanged /\ UNCHANGED <<saleVars, subVars, numberVars>>

RaceInit ==
  /\ now = 0
  /\ clients = <<>>
  /\ invoices = <<>>
  /\ invoiceItems = <<>>
  /\ payments = <<>>
  /\ last = [op |-> "init", code |-> 200, pid |-> NoId]
  /\ steps = 0
  /\ item = NewItem(InitialStock)
  /\ reqs \in [Requests -> {[pc |-> "start", quantity |-> q, doc |-> NewItem(0)] :
                              q \in RaceQuantities}]
  /\ removed = {}
  /\ stock = <<>>
  /\ sales = <<>>
  /\ subs = <<>>
  /\ subPayments = <<>>
  /\ user = NewUser
  /\ numbered = <<>>

RaceNext ==
  \/ \E r \in Requests : loadItem(r)
  \/ \E r \in Requests : reduceLoaded(r)

SpecRace == RaceInit /\ [][RaceNext]_vars


(***************************************************************************)
(* Sales and invoices that take their items from the inventory.  The       *)
(* inventory holds two items, found by sku or _id 1 and 2.                 *)
(***************************************************************************)
SecondStock == 1

SaleItem(sku, qty) == [sku |-> sku, qty |-> qty]

SaleBodies ==
  { <<>>,
    <<SaleItem(1, 1)>>,
    <<SaleItem(1, 2), SaleItem(2, SecondStock + 1)>>,
    <<SaleItem(2, 1), SaleItem(1, 1)>>,
    <<SaleItem(1, 1), SaleItem(3, 1)>>,
    <<SaleItem(1, 1), SaleItem(2, 0)>> }

LinkedInvoiceBodies ==
  { [items |-> <<LinkedItem(2, 50, 1), LinkedItem(SecondStock + 1, 50, 2)>>,
     taxRate |-> Undefined, discount |-> Undefined, discountType |-> "",
     shippingFee |-> Undefined, dueDate |-> Undefined],
    [items |-> <<LinkedItem(1, 50, 2), Item(1, 50, 0, "percentage")>>,
     taxRate |-> Undefined, discount |-> Undefined, discountType |-> "",
     shippingFee |-> Undefined, dueDate |-> Undefined] }

\* createSale, "Attempt to deduct inventory for each item": the stock after
\* the loop over items[i..] and the response code the loop ends with (201
\* when it ran to its end)
RECURSIVE deductEach(_, _, _, _)
deductEach(st, items, i, t) ==
  IF i > Len(items) THEN [stock |-> st, code |-> 201]
  ELSE LET sku == items[i].sku IN
       IF sku \notin DOMAIN st THEN [stock |-> st, code |-> 404]
       ELSE IF insufficientStock(st[sku], items[i].qty)
       THEN [stock |-> st, code |-> 500]
       ELSE deductEach(
              [st EXCEPT ![sku] = inventoryPreSave(
                 inventoryReduceStock(@, items[i].qty, "sale", t))],
              items, i + 1, t)

\* cancelSale, "Optionally restock": the stock after the loop over items[i..]
RECURSIVE restockEach(_, _, _, _)
restockEach(st, items, i, t) ==
  IF i > Len(items) THEN st
  ELSE LET sku == items[i].sku IN
       IF sku \notin DOMAIN st THEN restockEach(st, items, i + 1, t)
       ELSE restockEach(
              [st EXCEPT ![sku] = inventoryPreSave(
                 inventoryAddStock(@, items[i].qty, "return", t))],
              items, i + 1, t)

SaleUnchanged ==
  UNCHANGED <<now, clients, invoices, invoiceItems, payments, removed,
              stockVars, raceVars, numberVars, subVars>>

\* createSale
createSale(items) ==
  /\ Step
  /\ IF Len(items) = 0 \/ \E i \in 1..Len(items) : items[i].qty = 0
     THEN /\ Reply("createSale", 400, NoId)
          /\ UNCHANGED <<stock, sales>>
     ELSE LET r == deductEach(stock, items, 1, now)
          IN  /\ stock' = r.stock
              /\ sales' = IF r.code = 201
                          THEN Append(sales, [items |-> items,
                                              paymentStatus |-> "pending"])
                          ELSE sales
              /\ Reply("createSale", r.code, NoId)
  /\ SaleUnchanged

\* cancelSale
cancelSale(s) ==
  /\ Step
  /\ s \in 1..Len(sales)
  /\ sales' = [sales EXCEPT ![s].paymentStatus = "refunded"]
  /\ stock' = restockEach(stock, sales[s].items, 1, now)
  /\ Reply("cancelSale", 200, NoId)
  /\ SaleUnchanged

SaleInit ==
  /\ now = 0
  /\ clients = (TheClient :> [totalPaid |-> 0])
  /\ invoices = <<>>
  /\ invoiceItems = <<>>
  /\ payments = <<>>
  /\ last = [op |-> "init", code |-> 200, pid |-> NoId]
  /\ steps = 0
  /\ item = [quantity |-> 0]
  /\ reqs = <<>>
  /\ removed = {}
  /\ stock = <<NewItem(InitialStock), NewItem(SecondStock)>>
  /\ sales = <<>>
  /\ subs = <<>>
  /\ subPayments = <<>>
  /\ user = NewUser
  /\ numbered = <<>>

SaleNext ==
  \/ \E items \in SaleBodies : createSale(items)
  \/ \E s \in 1..Len(sales) : cancelSale(s)
  \/ \E body \in LinkedInvoiceBodies : createInvoice(TheClient, body)
  \/ deleteInvoice

SpecSale == SaleInit /\ [][SaleNext]_vars


(***************************************************************************)
(* Subscription lifecycle of one user.  A transaction reference is the     *)
(* number of the request that generated it (the source builds it from      *)
(* Date.now()).                                                            *)
(***************************************************************************)
MonthDays == 30
YearDays == 365
GraceDays == 7
MonthlyAmount == 200
YearlyAmount == 2000
NoRef == 0

PlanTypes == {"monthly", "yearly"}
GatewayAmounts == {MonthlyAmount, YearlyAmount}
ElapseDays == {20, 35}

periodDays(planType) == IF planType = "yearly" THEN YearDays ELSE MonthDays
planAmount(planType) ==
  IF planType = "yearly" THEN YearlyAmount ELSE MonthlyAmount

\* subscriptionSchema.virtual("isActive")
isActive(sub, t) == sub.status = "active" /\ t <= sub.endDate

\* subscriptionSchema.virtual("isExpired")
isExpired(sub, t) ==
  sub.status = "expired" \/ (sub.status = "active" /\ t > sub.endDate)

\* subscriptionSchema.virtual("isInGracePeriod")
isInGracePeriod(sub, t) ==
  IF sub.status # "active" THEN FALSE
  ELSE t > sub.endDate /\ t <= sub.endDate + sub.gracePeriodDays

\* subscriptionPreSave that expires at the end date, without the grace period
subscriptionPreSave_NoGrace(sub, t) ==
  LET s1 == IF sub.status = "active" /\ sub.autoRenew
               /\ sub.nextBillingDate = Undefined
            THEN [sub EXCEPT !.nextBillingDate = sub.endDate]
            ELSE sub
  IN  IF s1.status = "active" /\ t > s1.endDate
      THEN [s1 EXCEPT !.status = "expired"]
      ELSE s1

\* subscriptionSchema.pre("save")
subscriptionPreSave(sub, t) ==
  LET s1 == IF sub.status = "active" /\ sub.autoRenew
               /\ sub.nextBillingDate = Undefined
            THEN [sub EXCEPT !.nextBillingDate = sub.endDate]
            ELSE sub
  IN  IF s1.status = "active" /\ t > s1.endDate
         /\ t > s1.endDate + s1.gracePeriodDays
      THEN [s1 EXCEPT !.status = "expired"]
      ELSE s1

\* subscriptionSchema.methods.activate, including its save()
activate(sub, t) ==
  subscriptionPreSave(
    [sub EXCEPT !.status = "active",
                !.paymentVerifiedAt = t,
                !.startDate = t,
                !.endDate = t + periodDays(sub.planType),
                !.nextBillingDate = t + periodDays(sub.planType)], t)

\* renew that restarts the period from now
renew_FromNow(sub, t) ==
  subscriptionPreSave(
    [sub EXCEPT !.renewalHistory = Append(@, [renewalDate |-> t,
                                              amount |-> sub.amount]),
                !.endDate = t + periodDays(sub.planType),
                !.status = "active",
                !.paymentVerifiedAt = t,
                !.nextBillingDate = t + periodDays(sub.planType),
                !.cancelledAt = Undefined], t)

\* subscriptionSchema.methods.renew past its guard, including its save()
renew(sub, t) ==
  LET baseDate == IF sub.endDate > t THEN sub.endDate ELSE t
  IN  subscriptionPreSave(
        [sub EXCEPT !.renewalHistory = Append(@, [renewalDate |-> t,
                                                  amount |-> sub.amount]),
                    !.endDate = baseDate + periodDays(sub.planType),
                    !.status = "active",
                    !.paymentVerifiedAt = t,
                    !.nextBillingDate = baseDate + periodDays(sub.planType),
                    !.cancelledAt = Undefined], t)

\* renew throws "Can only renew active or expired subscriptions"
renewRejected(sub) == sub.status # "active" /\ sub.status # "expired"

\* subscriptionSchema.methods.cancel, including its save()
cancel(sub, t) ==
  subscriptionPreSave(
    [sub EXCEPT !.status = "cancelled", !.autoRenew = FALSE,
                !.cancelledAt = t], t)

\* subscriptionSchema.methods.suspend, including its save()
suspend(sub, t) == subscriptionPreSave([sub EXCEPT !.status = "suspended"], t)

\* Subscription.create of findOrCreate with the schema defaults
NewSubscription(planType, amount, t) ==
  subscriptionPreSave(
    [planType |-> planType, amount |-> amount, status |-> "pending",
     startDate |-> t, endDate |-> t, nextBillingDate |-> Undefined,
     autoRenew |-> TRUE, gracePeriodDays |-> GraceDays,
     paymentReference |-> NoRef, paymentVerifiedAt |-> Undefined,
     renewalHistory |-> <<>>, cancelledAt |-> Undefined], t)

\* findOne(...).sort({createdAt: -1}): the newest subscription whose status
\* is in statuses, NoId when there is none
Newest(statuses) ==
  LET found == {i \in 1..Len(subs) : subs[i].status \in statuses}
  IN  IF found = {} THEN NoId
      ELSE CHOOSE i \in found : \A j \in found : j <= i

AllStatuses == {"active", "expired", "cancelled", "pending", "suspended"}

\* the subscription whose paymentReference is ref, NoId when there is none
ByReference(ref) ==
  LET found == {i \in 1..Len(subs) : subs[i].paymentReference = ref}
  IN  IF found = {} THEN NoId ELSE CHOOSE i \in found : TRUE

\* the payment whose transactionRef is ref, NoId when there is none
PaymentByReference(ref) ==
  LET found == {p \in 1..Len(subPayments) : subPayments[p].ref = ref}
  IN  IF found = {} THEN NoId ELSE CHOOSE p \in found : TRUE

SubUnchanged ==
  UNCHANGED <<clients, invoices, invoiceItems, payments, removed,
              stockVars, raceVars, numberVars, saleVars>>

\* initializeSubscription (the gateway accepted the initialisation)
initializeSubscription(planType) ==
  /\ Step
  /\ LET amount == planAmount(planType)
         old == Newest({"active", "pending"})
         \* Subscription.findOrCreate
         all == IF old = NoId
                THEN Append(subs, NewSubscription(planType, amount, now))
                ELSE subs
         i == IF old = NoId THEN Len(subs) + 1 ELSE old
     IN  /\ subs' = [all EXCEPT ![i] = subscriptionPreSave(
                       [@ EXCEPT !.paymentReference = steps + 1,
                                 !.planType = planType,
                                 !.amount = amount], now)]
         /\ subPayments' = Append(subPayments,
              [ref |-> steps + 1, amount |-> amount, status |-> "pending",
               renewal |-> FALSE])
         /\ Reply("initializeSubscription", 200, i)
  /\ UNCHANGED <<now, user>>
  /\ SubUnchanged

\* verifySubscription: the gateway answers with gwStatus and gwAmount for the
\* transaction id of the request
verifySubscription(ref, gwStatus, gwAmount) ==
  /\ Step
  /\ LET i == ByReference(ref)
         p == PaymentByReference(ref)
     IN  IF gwStatus # "successful"
         THEN /\ Reply("verifySubscription", 400, NoId)
              /\ UNCHANGED <<subs, subPayments, user>>
         ELSE IF i = NoId
         THEN /\ Reply("verifySubscription", 404, NoId)
              /\ UNCHANGED <<subs, subPayments, user>>
         ELSE IF gwAmount # subs[i].amount
         THEN /\ Reply("verifySubscription", 400, i)
              /\ UNCHANGED <<subs, subPayments, user>>
         ELSE IF subs[i].status = "active"
                 /\ subs[i].paymentVerifiedAt # Undefined
         THEN /\ Reply("verifySubscription", 200, i)
              /\ UNCHANGED <<subs, subPayments, user>>
         ELSE /\ subPayments' =
                   IF p # NoId
                   THEN [subPayments EXCEPT ![p].status = "completed"]
                   ELSE Append(subPayments,
                          [ref |-> ref, amount |-> subs[i].amount,
                           status |-> "completed", renewal |-> FALSE])
              /\ subs' = [subs EXCEPT ![i] = activate(@, now)]
              /\ user' = [user EXCEPT !.status = "active",
                                      !.planStatus = "active",
                                      !.planType = "premium",
                                      !.planEndDate = subs'[i].endDate]
              /\ Reply("verifySubscription", 200, i)
  /\ UNCHANGED now
  /\ SubUnchanged

\* renewSubscription (the gateway accepted the initialisation)
renewSubscription(planType) ==
  /\ Step
  /\ LET i == Newest(AllStatuses)
     IN  IF i = NoId
         THEN /\ Reply("renewSubscription", 404, NoId)
              /\ UNCHANGED <<subs, subPayments>>
         ELSE /\ subs' = [subs EXCEPT ![i] = subscriptionPreSave(
                            [@ EXCEPT !.planType = planType,
                                      !.amount = planAmount(planType),
                                      !.paymentReference = steps + 1], now)]
              /\ subPayments' = Append(subPayments,
                   [ref |-> steps + 1, amount |-> planAmount(planType),
                    status |-> "pending", renewal |-> TRUE])
              /\ Reply("renewSubscription", 200, i)
  /\ UNCHANGED <<now, user>>
  /\ SubUnchanged

\* cancelSubscription
cancelSubscription ==
  /\ Step
  /\ LET i == Newest({"active", "pending"})
     IN  IF i = NoId
         THEN /\ Reply("cancelSubscription", 404, NoId)
              /\ UNCHANGED subs
         ELSE /\ subs' = [subs EXCEPT ![i] = cancel(@, now)]
              /\ Reply("cancelSubscription", 200, i)
  /\ UNCHANGED <<now, subPayments, user>>
  /\ SubUnchanged

\* subscription.renew(paymentId, transactionId) called on subscription i
callRenew(i) ==
  /\ Step
  /\ i \in 1..Len(subs)
  /\ IF renewRejected(subs[i])
     THEN Reply("renew", 500, i) /\ UNCHANGED subs
     ELSE subs' = [subs EXCEPT ![i] = renew(@, now)] /\ Reply("renew", 200, i)
  /\ UNCHANGED <<now, subPayments, user>>
  /\ SubUnchanged

\* subscription.suspend(reason) called on subscription i
callSuspend(i) ==
  /\ Step
  /\ i \in 1..Len(subs)
  /\ subs' = [subs EXCEPT ![i] = suspend(@, now)]
  /\ Reply("suspend", 200, i)
  /\ UNCHANGED <<now, subPayments, user>>
  /\ SubUnchanged

\* days pass
Elapse(days) ==
  /\ now < SubHorizon
  /\ now' = now + days
  /\ Reply("Elapse", 200, NoId)
  /\ UNCHANGED <<steps, subs, subPayments, user>>
  /\ SubUnchanged

SubInit ==
  /\ now = 0
  /\ clients = <<>>
  /\ invoices = <<>>
  /\ invoiceItems = <<>>
  /\ payments = <<>>
  /\ last = [op |-> "init", code |-> 200, pid |-> NoId]
  /\ steps = 0
  /\ item = [quantity |-> 0]
  /\ reqs = <<>>
  /\ removed = {}
  /\ stock = <<>>
  /\ sales = <<>>
  /\ subs = <<>>
  /\ subPayments = <<>>
  /\ user = NewUser
  /\ numbered = <<>>

SubNext ==
  \/ \E planType \in PlanTypes : initializeSubscription(planType)
  \/ \E p \in 1..Len(subPayments), gwStatus \in GatewayStatuses,
        gwAmount \in GatewayAmounts :
          verifySubscription(subPayments[p].ref, gwStatus, gwAmount)
  \/ \E planType \in PlanTypes : renewSubscription(planType)
  \/ cancelSubscription
  \/ \E i \in 1..Len(subs) : callRenew(i)
  \/ \E i \in 1..Len(subs) : callSuspend(i)
  \/ \E days \in ElapseDays : Elapse(days)

SpecSub == SubInit /\ [][SubNext]_vars

(***************************************************************************)
(* Invoice numbering.  numbered holds, in insertion order, the user and    *)
(* the invoiceNumber of every stored invoice.  An invoiceNumber is the     *)
(* string INV-{year}-{digits}, kept as its year and its sequence of        *)
(* digits; strings compare digit by digit, as the sort of the query does.  *)
(***************************************************************************)
NumOwners == 2
FirstYear == 2026
YearSpan == 1
PadWidth == 4
DaysPerYear == 365
Owners == 1..NumOwners

\* new Date().getFullYear()
getFullYear(t) == FirstYear + (t \div DaysPerYear)

RECURSIVE String(_)
\* String(n): the decimal digits of n
String(n) == IF n < 10 THEN <<n>> ELSE Append(String(n \div 10), n % 10)

RECURSIVE padStart(_, _)
\* s.padStart(width, "0")
padStart(s, width) ==
  IF Len(s) >= width THEN s ELSE padStart(<<0>> \o s, width)

RECURSIVE parseInt(_)
\* parseInt of a string of digits
parseInt(s) ==
  IF Len(s) = 1 THEN s[1]
  ELSE parseInt(SubSeq(s, 1, Len(s) - 1)) * 10 + s[Len(s)]

RECURSIVE StringLess(_, _)
\* a < b in the order of strings: the first differing character decides, and
\* a proper prefix comes first
StringLess(a, b) ==
  IF b = <<>> THEN FALSE
  ELSE IF a = <<>> THEN TRUE
  ELSE IF Head(a) # Head(b) THEN Head(a) < Head(b)
  ELSE StringLess(Tail(a), Tail(b))

\* the string INV-{year}-{digits}
InvoiceNumber(year, digits) == [year |-> year, digits |-> digits]

\* findOne({user, invoiceNumber: /^INV-{year}-/}).sort({invoiceNumber: -1}):
\* the index in numbered of the user's invoice of that year whose number is
\* the last in string order, NoId when there is none
lastInvoice(userId, year) ==
  LET mine == {k \in 1..Len(numbered) :
                 /\ numbered[k].user = userId
                 /\ numbered[k].invoiceNumber.year = year}
  IN  IF mine = {} THEN NoId
      ELSE CHOOSE k \in mine :
             \A j \in mine :
               ~ StringLess(numbered[k].invoiceNumber.digits,
                            numbered[j].invoiceNumber.digits)

\* invoiceSchema.statics.generateInvoiceNumber
generateInvoiceNumber(userId, t) ==
  LET year == getFullYear(t)
      k == lastInvoice(userId, year)
      nextNumber == IF k = NoId THEN 1
                    ELSE parseInt(numbered[k].invoiceNumber.digits) + 1
  IN  InvoiceNumber(year, padStart(String(nextNumber), PadWidth))

\* the unique index on invoiceNumber refuses the insert (E11000)
duplicateKey(number) ==
  \E k \in 1..Len(numbered) : numbered[k].invoiceNumber = number

\* createInvoice by an owner for a client of theirs: the number is generated,
\* Invoice.create inserts the invoice or throws on a duplicate key
createNumberedInvoice(userId) ==
  /\ Step
  /\ LET number == generateInvoiceNumber(userId, now)
     IN  IF duplicateKey(number)
         THEN /\ Reply("createInvoice", 500, userId)
              /\ UNCHANGED numbered
         ELSE /\ numbered' = Append(numbered,
                               [user |-> userId, invoiceNumber |-> number])
              /\ Reply("createInvoice", 201, userId)
  /\ UNCHANGED <<clients, invoices, invoiceItems, payments, removed, now>>
  /\ UNCHANGED <<stockVars, raceVars, saleVars, subVars>>

\* deleteInvoice of the k-th stored invoice (a draft) by its owner
deleteNumberedInvoice(k) ==
  /\ Step
  /\ k \in 1..Len(numbered)
  /\ numbered' = [j \in 1..(Len(numbered) - 1) |->
                    IF j < k THEN numbered[j] ELSE numbered[j + 1]]
  /\ Reply("deleteInvoice", 200, numbered[k].user)
  /\ UNCHANGED <<clients, invoices, invoiceItems, payments, removed, now>>
  /\ UNCHANGED <<stockVars, raceVars, saleVars, subVars>>

\* the calendar moves on to the next year
NewYear ==
  /\ Step
  /\ getFullYear(now) < FirstYear + YearSpan
  /\ now' = now + DaysPerYear
  /\ Reply("newYear", 200, NoId)
  /\ UNCHANGED <<clients, invoices, invoiceItems, payments, removed, numbered>>
  /\ UNCHANGED <<stockVars, raceVars, saleVars, subVars>>

\* no invoice yet, or the first owner has used the numbers up to 9998 and
\* deleted all but the last one
NumberInit ==
  /\ now = 0
  /\ clients = <<>>
  /\ invoices = <<>>
  /\ invoiceItems = <<>>
  /\ payments = <<>>
  /\ last = [op |-> "init", code |-> 200, pid |-> NoId]
  /\ steps = 0
  /\ item = [quantity |-> 0]
  /\ reqs = <<>>
  /\ removed = {}
  /\ stock = <<>>
  /\ sales = <<>>
  /\ subs = <<>>
  /\ subPayments = <<>>
  /\ user = NewUser
  /\ numbered \in
       { <<>>,
         << [user |-> 1,
             invoiceNumber |-> InvoiceNumber(FirstYear,
                                 padStart(String(9998), PadWidth))] >> }

NumberNext ==
  \/ \E userId \in Owners : createNumberedInvoice(userId)
  \/ \E k \in 1..Len(numbered) : deleteNumberedInvoice(k)
  \/ NewYear

SpecNumber == NumberInit /\ [][NumberNext]_vars

(***************************************************************************)
(* Concurrent completions of distinct payments of one invoice and client.  *)
(* Request r completes payment r.  markAsCompleted awaits findById of the  *)
(* invoice, addPayment and its save(), findById of the client, its save(), *)
(* and the save() of the payment; another request can run at each await.   *)
(* save() writes the paths the request modified on its loaded copy.        *)
(***************************************************************************)
RaceAmounts == {50, 100}
RaceSubtotal == 200

\* the invoice the payments are linked to, as createInvoice stores it
RaceInvoice ==
  invoicePreSave(
    [client |-> TheClient, subtotal |-> RaceSubtotal, taxRate |-> 0,
     taxAmount |-> 0, discount |-> 0, discountType |-> "percentage",
     shippingFee |-> 0, total |-> Undefined, amountPaid |-> 0,
     amountDue |-> 0, dueDate |-> DefaultTermDays, paidDate |-> Undefined,
     status |-> "draft", paymentStatus |-> "unpaid", sentAt |-> Undefined,
     viewedAt |-> Undefined], 0)

\* document.save(): the stored document with the paths whose value the
\* request changed on its copy since it loaded it
saveModified(stored, loaded, changed) ==
  [f \in DOMAIN stored |->
     IF changed[f] # loaded[f] THEN changed[f] ELSE stored[f]]

PayRaceUnchanged ==
  /\ UNCHANGED <<now, invoiceItems, steps, removed>>
  /\ UNCHANGED <<stockVars, saleVars, subVars, numberVars>>

\* markAsCompleted: await Invoice.findById(this.invoice)
findInvoice(r) ==
  /\ reqs[r].pc = "start"
  /\ reqs' = [reqs EXCEPT ![r].pc = "invoice", ![r].doc = invoices[TheInvoice]]
  /\ Reply("findInvoice", 200, r)
  /\ UNCHANGED <<invoices, clients, payments>>
  /\ PayRaceUnchanged

\* markAsCompleted: await invoice.addPayment(this.amount)
saveInvoice(r) ==
  /\ reqs[r].pc = "invoice"
  /\ invoices' = [invoices EXCEPT ![TheInvoice] =
       saveModified(@, reqs[r].doc,
                    addPayment(reqs[r].doc, payments[r].amount, now))]
  /\ reqs' = [reqs EXCEPT ![r].pc = "invoiceSaved"]
  /\ Reply("saveInvoice", 200, r)
  /\ UNCHANGED <<clients, payments>>
  /\ PayRaceUnchanged

\* markAsCompleted: await Client.findById(this.client)
findClient(r) ==
  /\ reqs[r].pc = "invoiceSaved"
  /\ reqs' = [reqs EXCEPT ![r].pc = "client", ![r].cdoc = clients[TheClient]]
  /\ Reply("findClient", 200, r)
  /\ UNCHANGED <<invoices, clients, payments>>
  /\ PayRaceUnchanged

\* markAsCompleted: client.totalPaid += this.amount; await client.save()
saveClient(r) ==
  /\ reqs[r].pc = "client"
  /\ clients' = [clients EXCEPT ![TheClient] =
       saveModified(@, reqs[r].cdoc,
         [reqs[r].cdoc EXCEPT !.totalPaid = @ + payments[r].amount])]
  /\ reqs' = [reqs EXCEPT ![r].pc = "clientSaved"]
  /\ Reply("saveClient", 200, r)
  /\ UNCHANGED <<invoices, payments>>
  /\ PayRaceUnchanged

\* markAsCompleted: return this.save() of the payment, status completed
savePayment(r) ==
  /\ reqs[r].pc = "clientSaved"
  /\ payments' = [payments EXCEPT ![r].status = "completed"]
  /\ reqs' = [reqs EXCEPT ![r].pc = "done"]
  /\ Reply("savePayment", 200, r)
  /\ UNCHANGED <<invoices, clients>>
  /\ PayRaceUnchanged

PayRaceInit ==
  /\ now = 0
  /\ clients = <<[totalPaid |-> 0]>>
  /\ invoices = (TheInvoice :> RaceInvoice)
  /\ invoiceItems = <<>>
  /\ payments \in [Requests ->
       {[invoice |-> TheInvoice, client |-> TheClient, amount |-> a,
         method |-> "flutterwave", status |-> "pending",
         refund |-> Undefined] : a \in RaceAmounts}]
  /\ last = [op |-> "init", code |-> 200, pid |-> NoId]
  /\ steps = 0
  /\ item = [quantity |-> 0]
  /\ reqs = [r \in Requests |->
              [pc |-> "start", doc |-> RaceInvoice, cdoc |-> [totalPaid |-> 0]]]
  /\ removed = {}
  /\ stock = <<>>
  /\ sales = <<>>
  /\ subs = <<>>
  /\ subPayments = <<>>
  /\ user = NewUser
  /\ numbered = <<>>

PayRaceNext ==
  \/ \E r \in Requests : findInvoice(r)
  \/ \E r \in Requests : saveInvoice(r)
  \/ \E r \in Requests : findClient(r)
  \/ \E r \in Requests : saveClient(r)
  \/ \E r \in Requests : savePayment(r)

SpecPayRace == PayRaceInit /\ [][PayRaceNext]_vars


(***************************************************************************)
(* Properties of the invoice ledger and the payment reconciler             *)
(***************************************************************************)
Linked(pay) == pay.invoice # NoId /\ pay.invoice \in DOMAIN invoices

\* C1: every persisted invoice has taxAmount = subtotal * taxRate / 100,
\* total = max(0, subtotal + taxAmount + shippingFee - discountAmount) and
\* amountDue = max(0, total - amountPaid), where discountAmount is the
\* discount when discountType is fixed and subtotal * discount / 100 when it
\* is percentage.
C1_TotalsRecomputed ==
  \A i \in DOMAIN invoices :
    LET inv == invoices[i]
        taxAmount == (inv.subtotal * inv.taxRate) \div 100
        discountAmount == IF inv.discountType = "fixed" THEN inv.discount
                          ELSE (inv.subtotal * inv.discount) \div 100
        raw == inv.subtotal + taxAmount + inv.shippingFee - discountAmount
    IN  /\ inv.taxAmount = taxAmount
        /\ inv.total = (IF raw > 0 THEN raw ELSE 0)
        /\ inv.amountDue = (IF inv.total - inv.amountPaid > 0
                            THEN inv.total - inv.amountPaid ELSE 0)

\* a refund was saved on an invoice that carries a discount and a balance
C1_Witness ==
  /\ last.op = "refundPayment" /\ last.code = 200
  /\ Linked(payments[last.pid])
  /\ invoices[payments[last.pid].invoice].discount > 0
  /\ invoices[payments[last.pid].invoice].amountDue > 0

\* C6 as stated: paymentStatus is paid if and only if amountPaid >= total
C6_PaidIffCovered ==
  \A i \in DOMAIN invoices :
    (invoices[i].paymentStatus = "paid")
       <=> (invoices[i].amountPaid >= invoices[i].total)

\* C6 as amended: paymentStatus is paid if and only if amountPaid is not 0
\* and amountPaid >= total (an invoice with nothing paid is unpaid, also
\* when its total is 0)
C6_PaidIffCoveredAndNonzero ==
  \A i \in DOMAIN invoices :
    (invoices[i].paymentStatus = "paid")
       <=> (invoices[i].amountPaid # 0
            /\ invoices[i].amountPaid >= invoices[i].total)

\* an invoice paid exactly up to its total has been saved
C6_Witness ==
  \E i \in DOMAIN invoices :
    /\ invoices[i].paymentStatus = "paid"
    /\ invoices[i].total > 0
    /\ invoices[i].amountPaid = invoices[i].total


PaymentOps ==
  {"createPayment", "initializeFlutterwavePayment",
   "verifyFlutterwavePayment", "updatePaymentStatus", "refundPayment"}

\* C2: a payment operation never persists a payment linked to an invoice
\* with an amount above that invoice's amountDue, and never takes an invoice
\* from amountPaid <= total to amountPaid > total.
C2_NoOverpayment ==
  [][ (last'.op \in PaymentOps) =>
        /\ (Len(payments') > Len(payments)
              /\ Linked(payments'[Len(payments')]))
             => payments'[Len(payments')].amount
                  <= invoices[payments'[Len(payments')].invoice].amountDue
        /\ \A i \in DOMAIN invoices :
             invoices[i].amountPaid <= invoices[i].total
               => invoices'[i].amountPaid <= invoices'[i].total ]_vars

\* C3: a completion invoked on a payment that is already completed leaves
\* the linked invoice and the linked client as they are (the side effects
\* of a payment are applied once).
C3_CompletionAppliedOnce ==
  [][ \A p \in 1..Len(payments) :
        ( /\ last'.op \in {"updatePaymentStatus", "verifyFlutterwavePayment"}
          /\ last'.pid = p
          /\ payments[p].status = "completed"
          /\ payments'[p].status = "completed" )
        => (invoices' = invoices /\ clients' = clients) ]_vars

\* C7: a createPayment that answers 201 with method cash leaves the payment
\* completed, the linked invoice's amountPaid and the linked client's
\* totalPaid increased by the amount, and an invoice paid up to its
\* amountDue with status paid and amountDue 0; with any other method the
\* payment is pending and invoices and clients are unchanged.
C7_CashAutoCompletes ==
  [][ (last'.op = "createPayment" /\ last'.code = 201) =>
        LET p == last'.pid
            pay == payments'[p]
        IN  /\ p = Len(payments) + 1
            /\ pay.method = "cash" =>
                 /\ pay.status = "completed"
                 /\ Linked(pay) =>
                      /\ invoices'[pay.invoice].amountPaid
                           = invoices[pay.invoice].amountPaid + pay.amount
                      /\ pay.amount = invoices[pay.invoice].amountDue =>
                           /\ invoices'[pay.invoice].status = "paid"
                           /\ invoices'[pay.invoice].amountDue = 0
                 /\ pay.client \in DOMAIN clients =>
                      clients'[pay.client].totalPaid
                        = clients[pay.client].totalPaid + pay.amount
            /\ pay.method # "cash" =>
                 /\ pay.status = "pending"
                 /\ invoices' = invoices
                 /\ clients' = clients ]_vars

\* a cash payment of the whole balance has paid the invoice
C7_Witness ==
  /\ last.op = "createPayment" /\ last.code = 201
  /\ payments[last.pid].method = "cash"
  /\ payments[last.pid].status = "completed"
  /\ Linked(payments[last.pid])
  /\ invoices[payments[last.pid].invoice].status = "paid"
  /\ invoices[payments[last.pid].invoice].amountDue = 0
  /\ invoices[payments[last.pid].invoice].amountPaid = payments[last.pid].amount
  /\ clients[payments[last.pid].client].totalPaid = payments[last.pid].amount

\* C8: a refund of a payment that is not completed, or of more than the
\* payment's amount, is rejected and leaves payments and invoices unchanged;
\* every recorded refund.amount is <= the payment's amount.
C8_RefundGuarded ==
  /\ [](\A p \in 1..Len(payments) :
          payments[p].refund # Undefined
            => payments[p].refund <= payments[p].amount)
  /\ [][ \A p \in 1..Len(payments), r \in RefundAmounts :
           ( /\ refundPayment(p, r)
             /\ \/ payments[p].status # "completed"
                \/ OrDefault(r, payments[p].amount) > payments[p].amount )
           => /\ last'.code = 500
              /\ payments' = payments
              /\ invoices' = invoices ]_vars

\* a refund of a completed payment was rejected (for its amount)
C8_Witness ==
  /\ last.op = "refundPayment" /\ last.code = 500
  /\ payments[last.pid].status = "completed"
  /\ Linked(payments[last.pid])

\* C9 as stated: a refund sets the payment to refunded, takes r off the
\* invoice's amountPaid, leaves amountDue = max(0, total - amountPaid), and
\* leaves the invoice unpaid / sent when amountPaid is back at 0 and
\* partial / partial otherwise.
C9_RefundRederives ==
  [][ (last'.op = "refundPayment" /\ last'.code = 200
         /\ Linked(payments[last'.pid])) =>
        LET pay == payments'[last'.pid]
            old == invoices[pay.invoice]
            inv == invoices'[pay.invoice]
        IN  /\ pay.status = "refunded"
            /\ inv.amountPaid = old.amountPaid - pay.refund
            /\ inv.amountDue = Max(0, inv.total - inv.amountPaid)
            /\ IF inv.amountPaid = 0
               THEN inv.paymentStatus = "unpaid" /\ inv.status = "sent"
               ELSE inv.paymentStatus = "partial" /\ inv.status = "partial"
    ]_vars

\* C9 as amended: the same, but paymentStatus / status stay paid / paid when
\* amountPaid is still >= total after the refund, and the status is overdue
\* instead of sent or partial when the due date has passed.
C9_RefundRederivesOrOverdue ==
  [][ (last'.op = "refundPayment" /\ last'.code = 200
         /\ Linked(payments[last'.pid])) =>
        LET pay == payments'[last'.pid]
            old == invoices[pay.invoice]
            inv == invoices'[pay.invoice]
            late == now > inv.dueDate
        IN  /\ pay.status = "refunded"
            /\ inv.amountPaid = old.amountPaid - pay.refund
            /\ inv.amountDue = Max(0, inv.total - inv.amountPaid)
            /\ IF inv.amountPaid = 0
               THEN /\ inv.paymentStatus = "unpaid"
                    /\ inv.status = (IF late THEN "overdue" ELSE "sent")
               ELSE IF inv.amountPaid >= inv.total
               THEN inv.paymentStatus = "paid" /\ inv.status = "paid"
               ELSE /\ inv.paymentStatus = "partial"
                    /\ inv.status = (IF late THEN "overdue" ELSE "partial")
    ]_vars

\* a part of a payment was refunded and the invoice is partial again
C9_Witness ==
  /\ last.op = "refundPayment" /\ last.code = 200
  /\ Linked(payments[last.pid])
  /\ payments[last.pid].status = "refunded"
  /\ payments[last.pid].refund < payments[last.pid].amount
  /\ invoices[payments[last.pid].invoice].status = "partial"
  /\ invoices[payments[last.pid].invoice].amountDue = payments[last.pid].refund

\* C10: a payment with method flutterwave becomes completed only in a
\* verifyFlutterwavePayment step.
C10_GatewayOnlyCompletion ==
  [][ \A p \in 1..Len(payments) :
        ( /\ payments[p].method = "flutterwave"
          /\ payments[p].status # "completed"
          /\ payments'[p].status = "completed" )
        => last'.op = "verifyFlutterwavePayment" ]_vars

\* C11: a verifyFlutterwavePayment of a pending payment whose gateway answer
\* is not successful or whose amount differs from the payment's amount
\* leaves invoices and clients unchanged and the payment pending or failed.
C11_VerifyNeedsEqualAmount ==
  [][ \A p \in 1..Len(payments), gwStatus \in GatewayStatuses,
         gwAmount \in Amounts :
        ( /\ verifyFlutterwavePayment(p, gwStatus, gwAmount)
          /\ payments[p].status = "pending"
          /\ ~(gwStatus = "successful" /\ gwAmount = payments[p].amount) )
        => /\ payments'[p].status \in {"pending", "failed"}
           /\ invoices' = invoices
           /\ clients' = clients ]_vars

\* C12: a completed payment stays completed or becomes refunded, and a
\* failed or refunded payment keeps its status, in every step.
C12_StatusTransitionsOnce ==
  [][ \A p \in 1..Len(payments) :
        /\ payments[p].status = "completed"
             => payments'[p].status \in {"completed", "refunded"}
        /\ payments[p].status \in {"failed", "refunded"}
             => payments'[p].status = payments[p].status ]_vars

\* C13: an updateInvoice or deleteInvoice on an invoice whose status is paid
\* answers 400 and leaves the invoice and the invoice items unchanged.
C13_PaidInvoiceImmutable ==
  [][ ( /\ TheInvoice \in DOMAIN invoices
        /\ invoices[TheInvoice].status = "paid"
        /\ last'.op \in {"updateInvoice", "deleteInvoice"} )
      => /\ last'.code = 400
         /\ invoices' = invoices
         /\ invoiceItems' = invoiceItems ]_vars

\* a delete of a paid invoice was refused and the invoice has its items
C13_Witness ==
  /\ last.op = "deleteInvoice" /\ last.code = 400
  /\ TheInvoice \in DOMAIN invoices
  /\ invoices[TheInvoice].status = "paid"
  /\ Len(invoiceItems) > 0

C21_DraftNeverOverdue ==
  [][ /\ (last'.op = "createInvoice" /\ last'.code = 201)
         => invoices'[TheInvoice].status = "draft"
      /\ ( /\ TheInvoice \in DOMAIN invoices'
           /\ invoices'[TheInvoice].status = "overdue"
           /\ ~ ( /\ TheInvoice \in DOMAIN invoices
                  /\ invoices[TheInvoice].status = "overdue" ) )
         => /\ TheInvoice \in DOMAIN invoices
            /\ invoices[TheInvoice].status \in {"sent", "viewed", "partial"} ]_vars

\* C22: an updateInvoice with status cancelled on an invoice that is not paid
\* stores status cancelled, and a later save (markAsSent, markAsViewed,
\* updateInvoice without a status) of a cancelled invoice keeps it cancelled.
C22_CancelledPersists ==
  [][ /\ \A body \in UpdateInvoiceBodies :
           ( /\ updateInvoice(body)
             /\ body.status = "cancelled"
             /\ invoices[TheInvoice].status # "paid" )
           => invoices'[TheInvoice].status = "cancelled"
      /\ ( /\ TheInvoice \in DOMAIN invoices
           /\ invoices[TheInvoice].status = "cancelled"
           /\ last'.op \in {"sendInvoice", "markAsViewed", "updateInvoice"} )
         => invoices'[TheInvoice].status = "cancelled" ]_vars

RECURSIVE SumItemSubtotals(_)
\* the sum of the items' own subtotals: quantity x unitPrice less the item's
\* discount, floored at 0
SumItemSubtotals(items) ==
  IF items = <<>> THEN 0
  ELSE invoiceItemPreSave(Head(items)) + SumItemSubtotals(Tail(items))

\* C23: after a createInvoice or an updateInvoice that stored the invoice, the
\* subtotal of the invoice is the sum of the subtotals of its items, each
\* reduced by the item's discount and floored at 0.
C23_SubtotalSumsItems ==
  [][ ( /\ last'.op \in {"createInvoice", "updateInvoice"}
        /\ last'.code \in {200, 201} )
      => invoices'[TheInvoice].subtotal = SumItemSubtotals(invoiceItems') ]_vars

\* C27 as stated: markAsSent changes the status only from draft, to sent,
\* stamping sentAt; markAsViewed sets viewedAt only when it is not set and
\* changes the status only from sent, to viewed; otherwise the status stays.
C27_MarkOnly ==
  [][ /\ last'.op = "sendInvoice"
         => LET inv == invoices[TheInvoice]
                out == invoices'[TheInvoice]
            IN  /\ out.status = IF inv.status = "draft" THEN "sent" ELSE inv.status
                /\ out.sentAt = IF inv.status = "draft" THEN now ELSE inv.sentAt
      /\ last'.op = "markAsViewed"
         => LET inv == invoices[TheInvoice]
                out == invoices'[TheInvoice]
            IN  /\ out.viewedAt = IF inv.viewedAt = Undefined THEN now
                                  ELSE inv.viewedAt
                /\ out.status = IF inv.viewedAt = Undefined /\ inv.status = "sent"
                                THEN "viewed" ELSE inv.status ]_vars

\* the status the save of an invoice derives from the status s the method
\* left: paid or partial when something is paid, then overdue past the due
\* date unless paid or cancelled
C27_Saved(inv, out, s) ==
  LET derived == IF inv.amountPaid = 0 THEN s
                 ELSE IF inv.amountPaid >= out.total THEN "paid" ELSE "partial"
  IN  IF now > inv.dueDate /\ derived \notin {"paid", "cancelled"}
      THEN "overdue" ELSE derived

\* C27, amended: markAsSent turns draft into sent (stamping sentAt) and
\* markAsViewed turns sent into viewed on its first call (stamping viewedAt
\* once); no other status is touched by the method itself, and the status
\* stored is the one the save derives from that: overdue past the due date
\* unless paid or cancelled.
C27_MarkThenRecompute ==
  [][ /\ last'.op = "sendInvoice"
         => LET inv == invoices[TheInvoice]
                out == invoices'[TheInvoice]
            IN  /\ out.status = C27_Saved(inv, out,
                       IF inv.status = "draft" THEN "sent" ELSE inv.status)
                /\ out.sentAt = IF inv.status = "draft" THEN now ELSE inv.sentAt
      /\ last'.op = "markAsViewed"
         => LET inv == invoices[TheInvoice]
                out == invoices'[TheInvoice]
            IN  /\ out.viewedAt = IF inv.viewedAt = Undefined THEN now
                                  ELSE inv.viewedAt
                /\ out.status = C27_Saved(inv, out,
                       IF inv.viewedAt = Undefined /\ inv.status = "sent"
                       THEN "viewed" ELSE inv.status) ]_vars

\* an invoice sent on an earlier day was sent again past its due date and is
\* stored overdue, with the first sentAt kept
C27_Witness ==
  /\ TheInvoice \in DOMAIN invoices
  /\ last.op = "sendInvoice"
  /\ invoices[TheInvoice].status = "overdue"
  /\ invoices[TheInvoice].sentAt # Undefined
  /\ invoices[TheInvoice].sentAt < now

RECURSIVE SumContributions(_, _)
\* what the payments pays[1..n] linked to invoice i contribute: the amount of
\* a completed one, the amount less the refund of a refunded one
SumContributions(pays, i) ==
  IF pays = <<>> THEN 0
  ELSE LET pay == Head(pays)
           part == IF pay.invoice # i THEN 0
                   ELSE IF pay.status = "completed" THEN pay.amount
                   ELSE IF pay.status = "refunded" THEN pay.amount - pay.refund
                   ELSE 0
       IN  part + SumContributions(Tail(pays), i)

\* C28: in every state the amountPaid of each invoice is the sum, over the
\* payments linked to it, of the amount of the completed ones and of the
\* amount less the refund of the refunded ones; payments in any other status
\* contribute nothing.
C28_Reconciled ==
  \A i \in DOMAIN invoices :
    invoices[i].amountPaid = SumContributions(payments, i)

(***************************************************************************)
(* Properties of the inventory stock ledger                                *)
(***************************************************************************)
\* C4: the quantity of the item is never negative, and a reduceStock (or a
\* negative updateStock) of more than the current quantity is rejected and
\* leaves the item - quantity, stockHistory, stats - unchanged.
C4_StockNeverNegative ==
  /\ [](item.quantity >= 0)
  /\ [][ /\ \A q \in ReduceQuantities, type \in ReduceTypes :
              (reduceStock(q, type) /\ q > item.quantity)
                => (last'.code = 500 /\ item' = item)
         /\ \A d \in StockDeltas :
              (updateStock(d) /\ -d > item.quantity)
                => (last'.code = 500 /\ item' = item) ]_vars

\* reduceStock(InitialStock + 1) was rejected on an item that holds
\* InitialStock and has already seen a movement
C4_Witness ==
  /\ last.op = "reduceStock" /\ last.code = 500
  /\ item.quantity = InitialStock
  /\ Len(item.stockHistory) > 0

\* C16: stockHistory never holds more than 10 entries, and a successful
\* addStock, reduceStock or adjustStock leaves the movement it made as the
\* last entry, preceded by the entries that were there before in their
\* order, without the oldest one when there were already 10.
C16_HistoryBounded ==
  /\ [](Len(item.stockHistory) <= HistoryLimit)
  /\ [][ (last'.op \in {"addStock", "reduceStock", "adjustStock"}
           /\ last'.code = 200) =>
          LET h == item.stockHistory
              h2 == item'.stockHistory
              dropped == IF Len(h) = HistoryLimit THEN 1 ELSE 0
          IN  /\ Len(h2) = Len(h) + 1 - dropped
              /\ h2[Len(h2)].previousQuantity = item.quantity
              /\ h2[Len(h2)].newQuantity = item'.quantity
              /\ h2[Len(h2)].quantity = item'.quantity - item.quantity
              /\ \A i \in 1..(Len(h2) - 1) : h2[i] = h[i + dropped] ]_vars

\* an 11th movement was appended and the oldest one dropped
C16_Witness ==
  /\ last.op = "reduceStock" /\ last.code = 200
  /\ Len(item.stockHistory) = HistoryLimit
  /\ item.stockHistory[1].previousQuantity > 0
  /\ item.stockHistory[HistoryLimit].type = "sale"

\* C25: after every save of the inventory item its status is out_of_stock
\* if and only if the item is tracked and its quantity is 0 (so a tracked
\* item with quantity > 0 is never left out_of_stock).
C25_OutOfStockIffTrackedEmpty ==
  (item.status = "out_of_stock") <=> (item.trackInventory /\ item.quantity = 0)

C15_FailureLeavesNothing ==
  [][ (last'.op \in {"createInvoice", "createSale"} /\ last'.code = 500)
      => /\ stock' = stock
         /\ invoices' = invoices
         /\ invoiceItems' = invoiceItems
         /\ sales' = sales ]_vars

RECURSIVE SumReduced(_)
SumReduced(rs) ==
  IF rs = {} THEN 0
  ELSE LET r == CHOOSE x \in rs : TRUE
       IN  (IF reqs[r].pc = "reduced" THEN reqs[r].quantity ELSE 0)
             + SumReduced(rs \ {r})

\* C5: when every concurrent reduction has finished, the quantities of
\* those that succeeded add up to at most the stock that was available, and
\* the item holds the available stock minus that sum.
C5_NoOversell ==
  (\A r \in Requests : reqs[r].pc \in {"reduced", "failed"})
    => /\ SumReduced(Requests) <= InitialStock
       /\ item.quantity = InitialStock - SumReduced(Requests)

(***************************************************************************)
(* Properties of the subscription lifecycle                                *)
(***************************************************************************)
\* the step activated subscription i through verifySubscription
Activated(i) ==
  /\ last'.op = "verifySubscription" /\ last'.code = 200 /\ last'.pid = i
  /\ subs'[i] # subs[i]

\* the step renewed subscription i through its renew method
Renewed(i) == last'.op = "renew" /\ last'.code = 200 /\ last'.pid = i

\* activate sets startDate = now and endDate = now + period, renew sets
\* endDate = max(endDate, now) + period; both leave the status active and
\* nextBillingDate = endDate
DatesOfActivateAndRenew ==
  \A i \in 1..Len(subs) :
    /\ Activated(i) =>
         /\ subs'[i].startDate = now
         /\ subs'[i].endDate = now + periodDays(subs'[i].planType)
         /\ subs'[i].status = "active"
         /\ subs'[i].nextBillingDate = subs'[i].endDate
    /\ Renewed(i) =>
         /\ subs'[i].endDate
              = Max(subs[i].endDate, now) + periodDays(subs[i].planType)
         /\ subs'[i].status = "active"
         /\ subs'[i].nextBillingDate = subs'[i].endDate

\* a monthly subscription that was activated 20 days ago, never renewed
\* since, is being renewed
RenewedOnDay20(i) ==
  /\ Renewed(i)
  /\ subs[i].planType = "monthly"
  /\ subs[i].status = "active"
  /\ subs[i].renewalHistory = <<>>
  /\ subs[i].endDate = subs[i].startDate + MonthDays
  /\ now = subs[i].startDate + 20

\* C17 as stated: the dates of activate and renew with period 365 days for
\* yearly and 30 days for monthly, and a monthly subscription activated at
\* t0 and renewed at t0 + 20 days gets endDate t0 + 50 days.
C17_RenewalDates ==
  [][ /\ DatesOfActivateAndRenew
      /\ \A i \in 1..Len(subs) :
           RenewedOnDay20(i)
             => subs'[i].endDate = subs[i].startDate + 50 ]_vars

\* C17 as amended: the same dates, and a monthly subscription activated at
\* t0 and renewed at t0 + 20 days gets endDate t0 + 60 days (its endDate
\* t0 + 30 days plus the period).
C17_RenewalDatesFromEnd ==
  [][ /\ DatesOfActivateAndRenew
      /\ \A i \in 1..Len(subs) :
           RenewedOnDay20(i)
             => subs'[i].endDate = subs[i].startDate + 60 ]_vars

\* a monthly subscription activated on day 0 was renewed on day 20
C17_Witness ==
  /\ last.op = "renew" /\ last.code = 200
  /\ now = 20
  /\ subs[last.pid].planType = "monthly"
  /\ subs[last.pid].startDate = 0
  /\ Len(subs[last.pid].renewalHistory) = 1
  /\ subs[last.pid].endDate = 60

\* C18: a subscription whose status is cancelled or suspended never has
\* status active after a step.
C18_NoResurrection ==
  [][ \A i \in 1..Len(subs) :
        subs[i].status \in {"cancelled", "suspended"}
          => subs'[i].status # "active" ]_vars

\* C19: for every subscription, isExpired holds exactly when the status is
\* expired, or the status is active and now > endDate + gracePeriodDays; in
\* the grace period isInGracePeriod holds and isExpired does not; isActive
\* implies status active and now <= endDate.
C19_ExpiredAfterGrace ==
  \A i \in 1..Len(subs) :
    LET sub == subs[i] IN
    /\ isExpired(sub, now)
         <=> \/ sub.status = "expired"
             \/ (sub.status = "active"
                   /\ now > sub.endDate + sub.gracePeriodDays)
    /\ ( sub.status = "active" /\ sub.endDate < now
           /\ now <= sub.endDate + sub.gracePeriodDays )
         => (isInGracePeriod(sub, now) /\ ~isExpired(sub, now))
    /\ isActive(sub, now) => (sub.status = "active" /\ now <= sub.endDate)

\* C20: the save hook turns an active subscription into expired exactly when
\* now > endDate + gracePeriodDays and leaves every other status alone, and
\* a subscription becomes expired only in a step that saves it, from active
\* and past its grace period.
C20_ExpiryOnSave ==
  /\ [](\A i \in 1..Len(subs) :
          LET sub == subs[i]
              saved == subscriptionPreSave(sub, now)
          IN  /\ sub.status = "active" =>
                   saved.status =
                     (IF now > sub.endDate + sub.gracePeriodDays
                      THEN "expired" ELSE "active")
              /\ sub.status # "active" => saved.status = sub.status)
  /\ [][ \A i \in 1..Len(subs) :
           (subs[i].status # "expired" /\ subs'[i].status = "expired")
             => /\ subs[i].status = "active"
                /\ now > subs[i].endDate + subs[i].gracePeriodDays
                /\ now' = now
                /\ last'.op \in {"initializeSubscription",
                                 "renewSubscription"}
                /\ last'.pid = i ]_vars

\* a save expired a subscription that was past its grace period
C20_Witness ==
  /\ last.op = "renewSubscription" /\ last.code = 200
  /\ subs[last.pid].status = "expired"
  /\ now > subs[last.pid].endDate + subs[last.pid].gracePeriodDays

\* C30: a verifySubscription that answers 200 for the payment reference a
\* renewSubscription has issued (its renewal payment is still pending) on a
\* subscription that is active and not past its endDate D moves the endDate
\* to D + period (30 days monthly, 365 days yearly) and appends one entry to
\* renewalHistory.
C30_RenewalExtends ==
  [][ \A i \in DOMAIN subs :
        ( /\ last'.op = "verifySubscription"
          /\ last'.code = 200
          /\ last'.pid = i
          /\ subs[i].status = "active"
          /\ subs[i].paymentVerifiedAt # Undefined
          /\ now <= subs[i].endDate
          /\ PaymentByReference(subs[i].paymentReference) # NoId
          /\ subPayments[PaymentByReference(subs[i].paymentReference)].status
               = "pending"
          /\ subPayments[PaymentByReference(subs[i].paymentReference)].renewal )
        => /\ subs'[i].endDate = subs[i].endDate + periodDays(subs[i].planType)
           /\ Len(subs'[i].renewalHistory) = Len(subs[i].renewalHistory) + 1 ]_vars

(***************************************************************************)
(* Properties of the invoice numbering                                     *)
(***************************************************************************)
\* the highest number among the user's invoices of the year, 0 without any
HighestNumber(userId, year) ==
  LET mine == {parseInt(numbered[k].invoiceNumber.digits) :
                 k \in {j \in 1..Len(numbered) :
                          /\ numbered[j].user = userId
                          /\ numbered[j].invoiceNumber.year = year}}
  IN  IF mine = {} THEN 0 ELSE CHOOSE m \in mine : \A n \in mine : n <= m

\* C24: a createInvoice of an owner whose highest number of the current year
\* is k (0 when the owner has none) succeeds and stores INV-{year}-{k+1},
\* whatever the other owners hold, and afterwards no two invoices of one
\* owner share a number.
C24_SequentialPerOwner ==
  [][ \A userId \in Owners :
        createNumberedInvoice(userId)
        => /\ last'.code = 201
           /\ Len(numbered') = Len(numbered) + 1
           /\ numbered'[Len(numbered')] =
                [user |-> userId,
                 invoiceNumber |-> InvoiceNumber(getFullYear(now),
                    padStart(String(HighestNumber(userId, getFullYear(now)) + 1),
                             PadWidth))]
           /\ \A j, k \in 1..Len(numbered') :
                ( /\ j # k
                  /\ numbered'[j].user = numbered'[k].user )
                => numbered'[j].invoiceNumber # numbered'[k].invoiceNumber ]_vars

(***************************************************************************)
(* Properties of concurrent payment completions                            *)
(***************************************************************************)
RECURSIVE SumAmounts(_)
\* the sum of the amounts of the payments pays
SumAmounts(pays) ==
  IF pays = <<>> THEN 0 ELSE Head(pays).amount + SumAmounts(Tail(pays))

\* C29: once every concurrent completion has ended, the invoice's amountPaid
\* and the client's totalPaid have both grown by the sum of the amounts of
\* the completed payments, whatever the interleaving.
C29_NoLostIncrement ==
  ( /\ DOMAIN reqs = Requests
    /\ \A r \in Requests : reqs[r].pc = "done" )
  => /\ invoices[TheInvoice].amountPaid = SumAmounts(payments)
     /\ clients[TheClient].totalPaid = SumAmounts(payments)

====
